---- MODULE Spec2Model ----
(***************************************************************************)
(* Radio Admin Panel: the web client (frontend/src/App.js) talking to the  *)
(* API service.  The web client is modelled from its source; the API       *)
(* service's handlers, whose source is not part of the tree, are modelled  *)
(* from the written specification (sections 3 to 7).                       *)
(*                                                                         *)
(* A request travels:  operator action -> requests (in flight)             *)
(*                     -> API handler step(s) -> responses (in flight)     *)
(*                     -> the awaiting handler's continuation.             *)
(* Handlers of the API that check and then write do so in two steps: the   *)
(* service holds no lock and runs no transaction (section 5).              *)
(***************************************************************************)
EXTENDS Integers, Sequences, FiniteSets, TLC

\* ------------------------------------------------------------------ bounds
MaxClients == 2
MaxStreams == 2
MaxBills == 2
MaxInFlight == 2
MaxEdits == 1

ClientIds == 1..MaxClients
StreamIds == 1..MaxStreams
NoId == 0

\* ------------------------------------------------------- values and inputs
\* parseInt / parseFloat of an emptied number input: NaN.
NaN == -1
\* JSON.stringify writes NaN as null.
JsonNull == -2

Names == {"Acme"}
Emails == {"a@acme.com"}
\* what the operator may type into a number input (type="number")
IntTexts == {"", "2"}
\* money is counted in cents: "29.99" is 2999
FeeTexts == {"", "0", "29.99"}

NumericFields ==
    {"max_streams", "max_listeners", "bandwidth_limit", "monthly_fee"}
ClientFields ==
    {"name", "email", "phone", "company", "max_streams", "max_listeners",
     "bandwidth_limit", "billing_plan", "monthly_fee"}

\* parseInt(e.target.value) for the texts a number input can hold
parseInt(text) ==
    CASE text = "1" -> 1
      [] text = "2" -> 2
      [] OTHER -> NaN

\* parseFloat(e.target.value), in cents
parseFloat(text) ==
    CASE text = "0" -> 0
      [] text = "29.99" -> 2999
      [] OTHER -> NaN

\* useState initial value of ClientManagement's formData
ClientFormDefaults ==
    [name |-> "", email |-> "", phone |-> "", company |-> "",
     max_streams |-> 1, max_listeners |-> 100, bandwidth_limit |-> 128,
     billing_plan |-> "basic", monthly_fee |-> 0]

\* useState initial value of StreamManagement's formData ('' is NoId)
StreamFormDefaults ==
    [client_id |-> NoId, name |-> "", description |-> "", port |-> 8000,
     mount_point |-> "/stream", bitrate |-> 128, max_listeners |-> 100,
     format |-> "mp3", auto_dj |-> FALSE]

\* JSON.stringify(formData): every own field, NaN written as null
JsonStringify(form) ==
    [f \in DOMAIN form |->
        IF f \in NumericFields /\ form[f] = NaN THEN JsonNull ELSE form[f]]

VARIABLES
    \* --- API service: the document store
    dbClients,      \* id -> client document
    dbStreams,      \* id -> stream document
    dbBills,        \* sequence of billing records
    nextClientId,
    nextStreamId,
    \* --- the network
    requests,       \* requests sent and not yet answered
    responses,      \* responses (or network errors) not yet handled
    \* --- App
    currentPage,
    clients,
    streams,
    \* --- ClientManagement
    cm_showModal,
    cm_editingClient,
    cm_formData,
    \* --- StreamManagement
    sm_showModal,
    sm_editingStream,
    sm_formData,
    \* --- Billing
    billingData,
    \* --- what the operator has been shown (alert) last
    alertShown,
    \* --- the session: localStorage's token, App's user and loading,
    \* LoginScreen's loading and error, Dashboard's data, Header's clock
    token,
    user,
    loading,
    ls_loading,
    ls_error,
    dashboardStats,
    recentActivity,
    currentTime,
    \* --- App: the help tooltip, and the help icon the pointer is over
    helpTooltip,
    pointer,
    \* --- install.sh: position, inputs, changes made, exit status
    sh_pc,
    sh_EUID,
    sh_release,
    sh_response,
    sh_changes,
    sh_status,
    sh_files,       \* what the files written so far hold
    \* --- history of the run, read by the properties only
    hist

vars == <<dbClients, dbStreams, dbBills, nextClientId, nextStreamId,
          requests, responses, currentPage, clients, streams,
          cm_showModal, cm_editingClient, cm_formData,
          sm_showModal, sm_editingStream, sm_formData,
          billingData, alertShown, token, user, loading, ls_loading,
          ls_error, dashboardStats, recentActivity, currentTime,
          helpTooltip, pointer,
          sh_pc, sh_EUID, sh_release, sh_response, sh_changes, sh_status,
          sh_files,
          hist>>

dbVars == <<dbClients, dbStreams, dbBills, nextClientId, nextStreamId>>
cmVars == <<cm_showModal, cm_editingClient, cm_formData>>
smVars == <<sm_showModal, sm_editingStream, sm_formData>>
appVars == <<currentPage, clients, streams>>
tipVars == <<helpTooltip, pointer>>
sessVars == <<token, user, loading, ls_loading, ls_error, dashboardStats,
              recentActivity, currentTime, helpTooltip, pointer>>
shVars == <<sh_pc, sh_EUID, sh_release, sh_response, sh_changes, sh_status,
           sh_files>>


\* ------------------------------------------------------------ history
\* hist records what has happened, for the properties to speak about:
\*   deletedOk     clients whose deletion the web client saw succeed
\*   clientsAfter  the value of deletedOk when the request whose response
\*                 fetchClients stored last was issued
HistInit ==
    [deletedOk |-> {}, clientsAfter |-> {}, restored |-> FALSE,
     controlFailed |-> FALSE]

\* ------------------------------------------------------------ messages
EmptyBody == JsonStringify(ClientFormDefaults)

\* ------------------------------------------------------------ the session
\* localStorage.getItem('token') when no token is stored, as the
\* Authorization header prints it
NoToken == "null"

\* the token the API issues at login, and one it no longer accepts
ValidTokens == {"jwt"}
Tokens == {"jwt", "stale"}

\* useState(null): nobody is logged in
NoUser == "null"
AdminUser == "admin"

\* the credentials the login form can be submitted with; the first is the
\* form's initial value
Credentials == {"admin123", "wrong"}

\* useState({}) and useState([]): the dashboard before any answer
NoStats == [total_clients |-> NaN, total_streams |-> NaN]
NoActivity == 0

\* the Header's clock is followed for MaxTime ticks
MaxTime == 1

\* fetchWithAuth(url, options): one request, numbered in the order sent
Req(rid, op, target) ==
    [rid |-> rid, op |-> op, target |-> target,
     cbody |-> EmptyBody, form |-> ClientFormDefaults,
     sbody |-> StreamFormDefaults,
     phase |-> "sent", live |-> TRUE, after |-> {}, label |-> "",
     clicked |-> target, fee |-> 0, token |-> token, password |-> "",
     ahead |-> {}, late |-> FALSE, topic |-> ""]

Resp(r, ok, detail) ==
    [rid |-> r.rid, op |-> r.op, target |-> r.target, ok |-> ok,
     neterr |-> FALSE, detail |-> detail, live |-> r.live,
     after |-> r.after, clicked |-> r.clicked, clientsData |-> {},
     streamsData |-> {}, billingData |-> {}, access_token |-> NoToken,
     user |-> NoUser, stats |-> NoStats, activity |-> 0,
     ahead |-> r.ahead, late |-> r.late, topic |-> r.topic, tooltip |-> ""]

InFlight == Cardinality(requests) + Cardinality(responses)

Reply(r, resp) ==
    /\ requests' = requests \ {r}
    /\ responses' = responses \cup {resp}

Advance(r) ==
    /\ requests' = (requests \ {r}) \cup {[r EXCEPT !.phase = "checked"]}
    /\ UNCHANGED responses

frontVars == <<currentPage, clients, streams, cm_showModal,
               cm_editingClient, cm_formData, sm_showModal,
               sm_editingStream, sm_formData, billingData, alertShown,
               token, user, loading, ls_loading, ls_error, dashboardStats,
               recentActivity, currentTime, helpTooltip, pointer>>

\* ------------------------------------------- API service: authorization
\* bearer-token authentication: a request is served when its token is one
\* the API accepts
Authorized(r) == r.token \in ValidTokens

\* ------------------------------------------------- API service: documents
StreamsOf(db, c) == {s \in DOMAIN db : db[s].client_id = c}

\* a client as GET /api/clients lists it: its fields, its id and the
\* number of streams that belong to it
ClientOut(c) ==
    [f \in ClientFields \cup {"status"} |-> dbClients[c][f]]
      @@ [id |-> c, stream_count |-> Cardinality(StreamsOf(dbStreams, c))]

StreamOut(s) ==
    [id |-> s, client_id |-> dbStreams[s].client_id,
     status |-> dbStreams[s].status]

\* required fields present, numeric fields numbers
ValidClientBody(b) ==
    /\ b.name # "" /\ b.email # ""
    /\ \A f \in NumericFields : b[f] # JsonNull

EmailTaken(email, except) ==
    \E c \in DOMAIN dbClients : c # except /\ dbClients[c].email = email

NewClientDoc(b) ==
    [f \in ClientFields |-> b[f]] @@ [status |-> "active"]

\* the document together with what the properties want remembered of its
\* making: the form the operator submitted, and whether an update has been
\* written since
Remembered(doc, form) == doc @@ [submitted |-> form, updated |-> FALSE]

\* ------------------------------------------------- API service: handlers
\* GET /api/clients
ApiListClients(r) ==
    /\ Authorized(r)
    /\ r.op = "listClients"
    /\ Reply(r, [Resp(r, TRUE, "") EXCEPT
                   !.clientsData = {ClientOut(c) : c \in DOMAIN dbClients}])
    /\ UNCHANGED <<dbVars, frontVars, shVars, hist>>

\* GET /api/streams
ApiListStreams(r) ==
    /\ Authorized(r)
    /\ r.op = "listStreams"
    /\ Reply(r, [Resp(r, TRUE, "") EXCEPT
                   !.streamsData = {StreamOut(s) : s \in DOMAIN dbStreams}])
    /\ UNCHANGED <<dbVars, frontVars, shVars, hist>>

\* POST /api/clients, first step: validation and the look-up of the email
ApiCreateClientCheck(r) ==
    /\ Authorized(r)
    /\ r.op = "createClient" /\ r.phase = "sent"
    /\ IF ~ValidClientBody(r.cbody)
         THEN Reply(r, Resp(r, FALSE, "Validation error"))
         ELSE IF EmailTaken(r.cbody.email, NoId)
           THEN Reply(r, Resp(r, FALSE, "Email already registered"))
           ELSE Advance(r)
    /\ UNCHANGED <<dbVars, frontVars, shVars, hist>>

\* POST /api/clients, second step: the insert
ApiCreateClientInsert(r) ==
    /\ Authorized(r)
    /\ r.op = "createClient" /\ r.phase = "checked"
    /\ nextClientId <= MaxClients
    /\ dbClients' = dbClients @@
          (nextClientId :> Remembered(NewClientDoc(r.cbody), r.form))
    /\ nextClientId' = nextClientId + 1
    /\ hist' = hist
    /\ Reply(r, [Resp(r, TRUE, "") EXCEPT !.target = nextClientId])
    /\ UNCHANGED <<dbStreams, dbBills, nextStreamId, frontVars, shVars>>

\* PUT /api/clients/{id}, first step
ApiUpdateClientCheck(r) ==
    /\ Authorized(r)
    /\ r.op = "updateClient" /\ r.phase = "sent"
    /\ IF r.target \notin DOMAIN dbClients
         THEN Reply(r, Resp(r, FALSE, "Client not found"))
         ELSE IF ~ValidClientBody(r.cbody)
           THEN Reply(r, Resp(r, FALSE, "Validation error"))
           ELSE IF EmailTaken(r.cbody.email, r.target)
             THEN Reply(r, Resp(r, FALSE, "Email already registered"))
             ELSE Advance(r)
    /\ UNCHANGED <<dbVars, frontVars, shVars, hist>>

\* PUT /api/clients/{id}, second step: the write (nothing to write to when
\* the client has been deleted meanwhile)
ApiUpdateClientWrite(r) ==
    /\ Authorized(r)
    /\ r.op = "updateClient" /\ r.phase = "checked"
    /\ IF r.target \in DOMAIN dbClients
         THEN /\ dbClients' = [dbClients EXCEPT ![r.target] =
                   [f \in ClientFields |-> r.cbody[f]]
                     @@ [updated |-> TRUE] @@ @]
              /\ hist' = hist
              /\ Reply(r, Resp(r, TRUE, ""))
         ELSE /\ UNCHANGED <<dbClients, hist>>
              /\ Reply(r, Resp(r, FALSE, "Client not found"))
    /\ UNCHANGED <<dbStreams, dbBills, nextClientId, nextStreamId,
                   frontVars, shVars>>

\* DELETE /api/clients/{id}, first step: the referential check
ApiDeleteClientCheck(r) ==
    /\ Authorized(r)
    /\ r.op = "deleteClient" /\ r.phase = "sent"
    /\ IF r.target \notin DOMAIN dbClients
         THEN Reply(r, Resp(r, FALSE, "Client not found"))
         ELSE IF StreamsOf(dbStreams, r.target) # {}
           THEN Reply(r, Resp(r, FALSE, "Client has streams"))
           ELSE Advance(r)
    /\ UNCHANGED <<dbVars, frontVars, shVars, hist>>

\* DELETE /api/clients/{id}, second step: the removal
ApiDeleteClientWrite(r) ==
    /\ Authorized(r)
    /\ r.op = "deleteClient" /\ r.phase = "checked"
    /\ dbClients' = [c \in DOMAIN dbClients \ {r.target} |-> dbClients[c]]
    /\ Reply(r, Resp(r, TRUE, ""))
    /\ UNCHANGED <<dbStreams, dbBills, nextClientId, nextStreamId,
                   frontVars, shVars, hist>>

\* POST /api/clients/{client_id}/streams, first step: the client exists
\* and has room for one more stream
ApiCreateStreamCheck(r) ==
    /\ Authorized(r)
    /\ r.op = "createStream" /\ r.phase = "sent"
    /\ IF r.target \notin DOMAIN dbClients
         THEN Reply(r, Resp(r, FALSE, "Client not found"))
         ELSE IF Cardinality(StreamsOf(dbStreams, r.target))
                    >= dbClients[r.target].max_streams
           THEN Reply(r, Resp(r, FALSE, "Maximum streams limit reached"))
           ELSE Advance(r)
    /\ UNCHANGED <<dbVars, frontVars, shVars, hist>>

\* POST /api/clients/{client_id}/streams, second step: the insert
ApiCreateStreamInsert(r) ==
    /\ Authorized(r)
    /\ r.op = "createStream" /\ r.phase = "checked"
    /\ nextStreamId <= MaxStreams
    /\ dbStreams' = dbStreams @@
          (nextStreamId :> [client_id |-> r.target, status |-> "stopped",
                            selected |-> r.sbody.client_id])
    /\ nextStreamId' = nextStreamId + 1
    /\ hist' = hist
    /\ Reply(r, Resp(r, TRUE, ""))
    /\ UNCHANGED <<dbClients, dbBills, nextClientId, frontVars, shVars>>

\* DELETE /api/streams/{id}
ApiDeleteStream(r) ==
    /\ Authorized(r)
    /\ r.op = "deleteStream"
    /\ IF r.target \in DOMAIN dbStreams
         THEN /\ dbStreams' =
                   [s \in DOMAIN dbStreams \ {r.target} |-> dbStreams[s]]
              /\ Reply(r, Resp(r, TRUE, ""))
         ELSE /\ UNCHANGED dbStreams
              /\ Reply(r, Resp(r, FALSE, "Stream not found"))
    /\ UNCHANGED <<dbClients, dbBills, nextClientId, nextStreamId,
                   frontVars, shVars, hist>>

\* the status a control action leaves behind
ControlTarget(action) == IF action = "start" THEN "running" ELSE "stopped"

\* POST /api/streams/{id}/start and /stop: one call to the streaming
\* daemon, then the status update; a failed call is a server error and
\* writes nothing
ApiStreamControl(r, daemonOk) ==
    /\ Authorized(r)
    /\ r.op \in {"start", "stop"}
    /\ IF r.target \notin DOMAIN dbStreams
         THEN /\ Reply(r, Resp(r, FALSE, "Stream not found"))
              /\ UNCHANGED <<dbStreams, hist>>
         ELSE /\ dbStreams' =
                   IF daemonOk
                     THEN [dbStreams EXCEPT
                             ![r.target].status = ControlTarget(r.op)]
                     ELSE dbStreams
              /\ hist' = hist
              /\ Reply(r, Resp(r, daemonOk,
                               IF daemonOk THEN "" ELSE "Internal Server Error"))
    /\ UNCHANGED <<dbClients, dbBills, nextClientId, nextStreamId,
                   frontVars, shVars>>


\* the billing records of client c, oldest first
BillsOf(c) == SelectSeq(dbBills, LAMBDA b : b.client_id = c)

\* a client as GET /api/billing/clients lists it; billing_info is that of
\* its latest record, and absent (status "", amount 0) without one
BillingOut(c) ==
    [id |-> c, name |-> dbClients[c].name, email |-> dbClients[c].email,
     billing_plan |-> dbClients[c].billing_plan,
     monthly_fee |-> dbClients[c].monthly_fee,
     latest_amount |-> IF BillsOf(c) = <<>> THEN 0
                       ELSE BillsOf(c)[Len(BillsOf(c))].amount,
     status |-> IF BillsOf(c) = <<>> THEN ""
                ELSE BillsOf(c)[Len(BillsOf(c))].status]

\* GET /api/billing/clients
ApiListBilling(r) ==
    /\ Authorized(r)
    /\ r.op = "listBilling"
    /\ Reply(r, [Resp(r, TRUE, "") EXCEPT
                   !.billingData = {BillingOut(c) : c \in DOMAIN dbClients}])
    /\ UNCHANGED <<dbVars, frontVars, shVars, hist>>

\* the due dates a record can get from the time of its insert
DueDates == {1, 2}

\* POST /api/billing/generate/{client_id}, first step: the client is read
ApiGenerateBillRead(r) ==
    /\ Authorized(r)
    /\ r.op = "generateBill" /\ r.phase = "sent"
    /\ IF r.target \notin DOMAIN dbClients
         THEN Reply(r, Resp(r, FALSE, "Client not found"))
         ELSE /\ requests' = (requests \ {r}) \cup
                    {[r EXCEPT !.phase = "checked",
                               !.fee = dbClients[r.target].monthly_fee]}
              /\ UNCHANGED responses
    /\ UNCHANGED <<dbVars, frontVars, shVars, hist>>

\* (a slip to tell apart: the record written over the latest one)
ApiGenerateBillInsert_Overwrite(r) ==
    /\ Authorized(r)
    /\ r.op = "generateBill" /\ r.phase = "checked"
    /\ \E due \in DueDates :
          dbBills' = <<[client_id |-> r.target, amount |-> r.fee,
                        status |-> "pending", due |-> due]>>
    /\ Reply(r, Resp(r, TRUE, ""))
    /\ UNCHANGED <<dbClients, dbStreams, nextClientId, nextStreamId,
                   frontVars, shVars, hist>>

\* POST /api/billing/generate/{client_id}, second step: the row insert
ApiGenerateBillInsert(r) ==
    /\ Authorized(r)
    /\ r.op = "generateBill" /\ r.phase = "checked"
    /\ Len(dbBills) < MaxBills
    /\ \E due \in DueDates :
          dbBills' = Append(dbBills,
                            [client_id |-> r.target, amount |-> r.fee,
                             status |-> "pending", due |-> due])
    /\ Reply(r, Resp(r, TRUE, ""))
    /\ UNCHANGED <<dbClients, dbStreams, nextClientId, nextStreamId,
                   frontVars, shVars, hist>>

\* a pending record is marked paid or overdue
ApiBillSettle(i, status) ==
    /\ i \in 1..Len(dbBills)
    /\ dbBills[i].status = "pending"
    /\ status \in {"paid", "overdue"}
    /\ dbBills' = [dbBills EXCEPT ![i].status = status]
    /\ UNCHANGED <<dbClients, dbStreams, nextClientId, nextStreamId,
                   requests, responses, frontVars, shVars, hist>>

\* ---------------------------------------- API service: auth and dashboard
\* any endpoint but login, asked without a token the API accepts:
\* unauthorized
ApiUnauthorized(r) ==
    /\ r.op # "login"
    /\ r.phase = "sent"
    /\ ~Authorized(r)
    /\ Reply(r, Resp(r, FALSE, "Not authenticated"))
    /\ UNCHANGED <<dbVars, frontVars, shVars, hist>>

\* POST /api/auth/login
ApiLogin(r) ==
    /\ r.op = "login"
    /\ IF r.password = "admin123"
         THEN Reply(r, [Resp(r, TRUE, "") EXCEPT
                            !.access_token = "jwt", !.user = AdminUser])
         ELSE Reply(r, Resp(r, FALSE, "Incorrect username or password"))
    /\ UNCHANGED <<dbVars, frontVars, shVars, hist>>

\* GET /api/auth/me
ApiMe(r) ==
    /\ Authorized(r)
    /\ r.op = "me"
    /\ Reply(r, [Resp(r, TRUE, "") EXCEPT !.user = AdminUser])
    /\ UNCHANGED <<dbVars, frontVars, shVars, hist>>

\* GET /api/dashboard/stats: counts read at request time
ApiStats(r) ==
    /\ Authorized(r)
    /\ r.op = "stats"
    /\ Reply(r, [Resp(r, TRUE, "") EXCEPT
                     !.stats = [total_clients |-> Cardinality(DOMAIN dbClients),
                                total_streams |-> Cardinality(DOMAIN dbStreams)]])
    /\ UNCHANGED <<dbVars, frontVars, shVars, hist>>

\* GET /api/dashboard/recent-activity: the entries are counted, not kept
ApiActivity(r) ==
    /\ Authorized(r)
    /\ r.op = "activity"
    /\ Reply(r, [Resp(r, TRUE, "") EXCEPT !.activity = Len(dbBills)])
    /\ UNCHANGED <<dbVars, frontVars, shVars, hist>>

\* ------------------------------------------------------------ the network
\* fetch() rejects: the request never reaches the API
RequestFails(r) ==
    /\ r.phase = "sent"
    /\ Reply(r, [Resp(r, FALSE, "") EXCEPT !.neterr = TRUE])
    /\ UNCHANGED <<dbVars, frontVars, shVars, hist>>

\* at most MaxInFlight requests are under way at once; a request is known
\* by the number of the slot it occupies
CanSend(n) == InFlight + n <= MaxInFlight

UsedRids == {m.rid : m \in requests \cup responses}

FreeRid == CHOOSE i \in 1..MaxInFlight :
              /\ i \notin UsedRids
              /\ \A j \in 1..MaxInFlight : j \notin UsedRids => i <= j

FreeRid2 == CHOOSE i \in 1..MaxInFlight :
              /\ i \notin UsedRids \cup {FreeRid}
              /\ \A j \in 1..MaxInFlight :
                     j \notin UsedRids \cup {FreeRid} => i <= j

\* ------------------------------------------------------------------- App
\* alert() holds the page's one thread until the operator dismisses the
\* box: no handler and no continuation runs meanwhile
NoAlert == alertShown = ""

\* generateBill's alert: the one with a continuation left to run
BillGenerated == "Factura generada exitosamente"

\* (a slip to tell apart: the API's message left out of the alert)
ErrorAlert_Generic(detail, fallback) == "Error: " \o fallback

\* alert(`Error: ${errorData.detail || fallback}`): the text
ErrorAlert(detail, fallback) ==
    "Error: " \o (IF detail # "" THEN detail ELSE fallback)

DismissAlert ==
    /\ alertShown \notin {"", BillGenerated}
    /\ alertShown' = ""
    /\ UNCHANGED <<dbVars, shVars, sessVars,
                   requests, responses, appVars, cmVars, smVars,
                   billingData, hist>>

Pages == {"dashboard", "clients", "streams", "billing"}

\* what only a mounted component instance can still do: set its own state
ComponentOps ==
    {"createClient", "updateClient", "createStream", "updateStream",
     "listBilling", "generateBill"}

Unmounted(msgs) ==
    {IF m.op \in ComponentOps THEN [m EXCEPT !.live = FALSE] ELSE m :
        m \in msgs}

\* the requests for a list that are under way: a request for the same list
\* sent now is sent after each of them
Ahead(op) == {m.rid : m \in {n \in requests \cup responses : n.op = op}}

\* a response for a list has been taken up: it is ahead of no request any
\* more, and when it was stored, the requests sent before it are late
Settle(resp, msgs) ==
    {IF m.op = resp.op
       THEN [m EXCEPT !.ahead = @ \ {resp.rid},
                      !.late = @ \/ (resp.ok /\ m.rid \in resp.ahead)]
       ELSE m : m \in msgs}

\* fetchClients(): the request
FetchClientsReq(rid) ==
    [Req(rid, "listClients", NoId) EXCEPT !.after = hist.deletedOk,
                                          !.ahead = Ahead("listClients")]

\* fetchStreams(): the request
FetchStreamsReq(rid) ==
    [Req(rid, "listStreams", NoId) EXCEPT !.ahead = Ahead("listStreams")]

\* fetchBillingData(): the request
FetchBillingReq(rid, live) ==
    [Req(rid, "listBilling", NoId) EXCEPT !.live = live]

\* useEffect(..., [user, currentPage]): the requests a page sends when shown
PageRequests(page) ==
    CASE page = "clients" -> 1
      [] page = "streams" -> 2
      [] page = "billing" -> 1
      [] page = "dashboard" -> 2
      [] OTHER -> 0

\* (a slip to tell apart: the streams page asking for its streams only)
PageEffect_StreamsOnly(page) ==
    CASE page = "clients" -> {FetchClientsReq(FreeRid)}
      [] page = "streams" -> {FetchStreamsReq(FreeRid)}
      [] page = "billing" -> {FetchBillingReq(FreeRid, TRUE)}
      [] page = "dashboard" ->
             {Req(FreeRid, "stats", NoId), Req(FreeRid2, "activity", NoId)}
      [] OTHER -> {}

PageEffect(page) ==
    CASE page = "clients" -> {FetchClientsReq(FreeRid)}
      [] page = "streams" ->
             {FetchStreamsReq(FreeRid), FetchClientsReq(FreeRid2)}
      [] page = "billing" -> {FetchBillingReq(FreeRid, TRUE)}
      [] page = "dashboard" ->
             {Req(FreeRid, "stats", NoId), Req(FreeRid2, "activity", NoId)}
      [] OTHER -> {}

\* Sidebar: setCurrentPage(page).  The page shown before is unmounted and
\* its component state is gone; the page shown now mounts with its initial
\* state and the page effect runs.
SetCurrentPage(page) ==
    /\ NoAlert
    /\ user # NoUser
    /\ page # currentPage
    /\ CanSend(PageRequests(page))
    /\ requests' = Unmounted(requests) \cup PageEffect(page)
    /\ responses' = Unmounted(responses)
    /\ currentPage' = page
    /\ cm_showModal' = FALSE
    /\ cm_editingClient' = NoId
    /\ cm_formData' = ClientFormDefaults
    /\ sm_showModal' = FALSE
    /\ sm_editingStream' = NoId
    /\ sm_formData' = StreamFormDefaults
    /\ billingData' = {}
    /\ UNCHANGED <<dbVars, shVars, sessVars,
                   clients, streams, alertShown, hist>>

\* (a slip to tell apart: the response added to the list, not put in its
\* place)
FetchClientsStore_Append(old, resp) ==
    IF resp.ok THEN old \cup resp.clientsData ELSE old

\* what fetchClients stores on a response
FetchClientsStore(old, resp) == IF resp.ok THEN resp.clientsData ELSE old

\* fetchClients(): the continuation after the await
FetchClientsDone(resp) ==
    /\ NoAlert
    /\ resp.op = "listClients"
    /\ responses' = Settle(resp, responses \ {resp})
    /\ requests' = Settle(resp, requests)
    /\ clients' = FetchClientsStore(clients, resp)
    /\ hist' = IF resp.ok THEN [hist EXCEPT !.clientsAfter = resp.after]
                          ELSE hist
    /\ UNCHANGED <<dbVars, shVars, sessVars, currentPage, streams, cmVars,
                   smVars, billingData, alertShown>>

\* what fetchStreams stores on a response
FetchStreamsStore(old, resp) == IF resp.ok THEN resp.streamsData ELSE old

\* fetchStreams(): the continuation after the await
FetchStreamsDone(resp) ==
    /\ NoAlert
    /\ resp.op = "listStreams"
    /\ responses' = Settle(resp, responses \ {resp})
    /\ requests' = Settle(resp, requests)
    /\ streams' = FetchStreamsStore(streams, resp)
    /\ UNCHANGED <<dbVars, shVars, sessVars, currentPage, clients, cmVars,
                   smVars, billingData, alertShown, hist>>

\* ---------------------------------------------------------- App: session
\* fetchDashboardData(): the two requests of its Promise.all
DashboardReqs(r1, r2) ==
    {Req(r1, "stats", NoId), Req(r2, "activity", NoId)}

\* the page effect when user becomes non-null: the page shown is the
\* dashboard, and the answer taken up leaves its slot to the first request
UserEffect(resp) == DashboardReqs(resp.rid, FreeRid)

\* checkAuth(), up to its await: without a stored token nothing is sent
checkAuth ==
    /\ loading
    /\ ~\E m \in requests \cup responses : m.op = "me"
    /\ IF token = NoToken
         THEN /\ loading' = FALSE
              /\ UNCHANGED requests
         ELSE /\ CanSend(1)
              /\ requests' = requests \cup {Req(FreeRid, "me", NoId)}
              /\ UNCHANGED loading
    /\ UNCHANGED <<dbVars, shVars, responses, appVars, cmVars, smVars,
                   billingData, alertShown, token, user, ls_loading,
                   ls_error, dashboardStats, recentActivity, currentTime,
                   tipVars,
                   hist>>

\* (a slip to tell apart: the token left in place whatever the answer)
TokenAfterCheck_Kept(resp) == token

\* checkAuth(): the token after the answer; removed unless accepted
TokenAfterCheck(resp) == IF resp.ok THEN token ELSE NoToken

\* checkAuth(), from its await on
checkAuthDone(resp) ==
    /\ resp.op = "me"
    /\ responses' = responses \ {resp}
    /\ IF resp.ok
         THEN /\ CanSend(1)
              /\ user' = resp.user
              /\ requests' = requests \cup UserEffect(resp)
         ELSE UNCHANGED <<user, requests>>
    /\ token' = TokenAfterCheck(resp)
    /\ loading' = FALSE
    /\ hist' = [hist EXCEPT !.restored = resp.ok]
    /\ UNCHANGED <<dbVars, shVars, appVars, cmVars, smVars, billingData,
                   alertShown, ls_loading, ls_error, dashboardStats,
                   recentActivity, currentTime, tipVars>>

\* login(): the request; fetch() with no Authorization header
LoginReq(rid, password) ==
    [Req(rid, "login", NoId) EXCEPT !.token = NoToken,
                                    !.password = password]

\* LoginScreen is what App renders when it is not loading and user is null
LoginScreenShown == ~loading /\ user = NoUser

\* LoginScreen.handleSubmit, up to its await; the button is disabled while
\* loading
LS_handleSubmit(password) ==
    /\ NoAlert
    /\ LoginScreenShown
    /\ ~ls_loading
    /\ CanSend(1)
    /\ ls_loading' = TRUE
    /\ ls_error' = ""
    /\ requests' = requests \cup {LoginReq(FreeRid, password)}
    /\ UNCHANGED <<dbVars, shVars, responses, appVars, cmVars, smVars,
                   billingData, alertShown, token, user, loading,
                   dashboardStats, recentActivity, currentTime, tipVars,
                   hist>>

\* (a slip to tell apart: no message after a failed login)
LoginError_Blank(success) == ""

\* what LoginScreen shows after login() returned
LoginError(success) == IF success THEN "" ELSE "Credenciales inválidas"

\* login() from its await on, and the rest of LoginScreen.handleSubmit.  On
\* success LoginScreen is unmounted and the page effect runs.
LS_handleSubmitDone(resp) ==
    /\ NoAlert
    /\ resp.op = "login"
    /\ responses' = responses \ {resp}
    /\ IF resp.ok
         THEN /\ CanSend(1)
              /\ token' = resp.access_token
              /\ user' = resp.user
              /\ requests' =
                     requests \cup
                     {[m EXCEPT !.token = resp.access_token] :
                         m \in UserEffect(resp)}
         ELSE UNCHANGED <<token, user, requests>>
    /\ ls_error' = LoginError(resp.ok)
    /\ ls_loading' = FALSE
    /\ UNCHANGED <<dbVars, shVars, appVars, cmVars, smVars, billingData,
                   alertShown, loading, dashboardStats, recentActivity,
                   currentTime, tipVars, hist>>

\* logout(): the page shown is unmounted with the rest of the console
logout ==
    /\ NoAlert
    /\ user # NoUser
    /\ token' = NoToken
    /\ user' = NoUser
    /\ currentPage' = "dashboard"
    /\ requests' = Unmounted(requests)
    /\ responses' = Unmounted(responses)
    /\ cm_showModal' = FALSE
    /\ cm_editingClient' = NoId
    /\ cm_formData' = ClientFormDefaults
    /\ sm_showModal' = FALSE
    /\ sm_editingStream' = NoId
    /\ sm_formData' = StreamFormDefaults
    /\ billingData' = {}
    /\ ls_loading' = FALSE
    /\ ls_error' = ""
    /\ hist' = [hist EXCEPT !.restored = FALSE]
    /\ UNCHANGED <<dbVars, shVars, clients, streams, alertShown, loading,
                   dashboardStats, recentActivity, currentTime, tipVars>>

\* fetchDashboardData() from its await on: both answers are in; a network
\* error of either rejects the Promise.all and nothing is stored
FetchDashboardDone(stats, activity) ==
    /\ NoAlert
    /\ stats.op = "stats"
    /\ activity.op = "activity"
    /\ responses' = responses \ {stats, activity}
    /\ dashboardStats' =
           IF ~stats.neterr /\ ~activity.neterr /\ stats.ok
             THEN stats.stats ELSE dashboardStats
    /\ recentActivity' =
           IF ~stats.neterr /\ ~activity.neterr /\ activity.ok
             THEN activity.activity ELSE recentActivity
    /\ UNCHANGED <<dbVars, shVars, requests, appVars, cmVars, smVars,
                   billingData, alertShown, token, user, loading,
                   ls_loading, ls_error, currentTime, tipVars, hist>>

\* Header: setInterval(() => setCurrentTime(new Date()), 1000)
HeaderTick ==
    /\ NoAlert
    /\ user # NoUser
    /\ currentTime < MaxTime
    /\ currentTime' = currentTime + 1
    /\ UNCHANGED <<dbVars, shVars, requests, responses, appVars, cmVars,
                   smVars, billingData, alertShown, token, user, loading,
                   ls_loading, ls_error, dashboardStats, recentActivity,
                   tipVars, hist>>

\* useState({ visible: false, content: '', x: 0, y: 0 }): no tooltip shown
NoTooltip == [visible |-> FALSE, content |-> ""]

\* the pointer is over no help icon
NoIcon == ""

\* App is being mounted: nobody is logged in yet
Mounting ==
    /\ user = NoUser
    /\ loading = TRUE
    /\ ls_loading = FALSE
    /\ ls_error = ""
    /\ dashboardStats = NoStats
    /\ recentActivity = NoActivity
    /\ currentTime = 0
    /\ helpTooltip = NoTooltip
    /\ pointer = NoIcon

\* the session of a run that starts with the operator logged in
LoggedIn ==
    /\ token = "jwt"
    /\ user = AdminUser
    /\ loading = FALSE
    /\ ls_loading = FALSE
    /\ ls_error = ""
    /\ dashboardStats = NoStats
    /\ recentActivity = NoActivity
    /\ currentTime = 0
    /\ helpTooltip = NoTooltip
    /\ pointer = NoIcon

\* the settings of the files install.sh writes, none written yet: the
\* backend .env, the frontend .env, the built bundle and icecast.xml
NoFiles ==
    [ICECAST_ADMIN_PASSWORD |-> "", ICECAST_SOURCE_PASSWORD |-> "",
     REACT_APP_BACKEND_URL |-> "", API_URL |-> "",
     admin_password |-> "", source_password |-> ""]

\* install.sh is not running
NotInstalling ==
    /\ sh_pc = 0
    /\ sh_EUID = 1000
    /\ sh_release = ""
    /\ sh_response = ""
    /\ sh_changes = {}
    /\ sh_status = 0
    /\ sh_files = NoFiles

\* -------------------------------------------------------- ClientManagement
\* 'Agregar Cliente': setShowModal(true)
CM_Add ==
    /\ NoAlert
    /\ currentPage = "clients"
    /\ ~cm_showModal
    /\ cm_showModal' = TRUE
    /\ UNCHANGED <<dbVars, shVars, sessVars, requests, responses, appVars,
                   cm_editingClient, cm_formData, smVars, billingData,
                   alertShown, hist>>

\* handleEdit(client): the form is filled with the listed client
CM_handleEdit(client) ==
    /\ NoAlert
    /\ currentPage = "clients"
    /\ ~cm_showModal
    /\ client \in clients
    /\ cm_editingClient' = client.id
    /\ cm_formData' = client
    /\ cm_showModal' = TRUE
    /\ UNCHANGED <<dbVars, shVars, sessVars,
                   requests, responses, appVars, smVars,
                   billingData, alertShown, hist>>

\* the onChange handlers of ClientModal's inputs
ClientInput(form, field, text) ==
    CASE field \in {"max_streams", "max_listeners", "bandwidth_limit"} ->
              [form EXCEPT ![field] = parseInt(text)]
      [] field = "monthly_fee" -> [form EXCEPT ![field] = parseFloat(text)]
      [] OTHER -> [form EXCEPT ![field] = text]

\* the texts the operator may put into a field of the client form
ClientTexts(field) ==
    CASE field = "name" -> Names
      [] field = "email" -> Emails
      [] field = "phone" -> {"555-0100"}
      [] field = "company" -> {"Acme Radio"}
      [] field = "billing_plan" -> {"basic", "premium", "enterprise"}
      [] field = "monthly_fee" -> FeeTexts
      [] OTHER -> IntTexts

\* the inputs of the client form without the required attribute
OptionalFields == ClientFields \ {"name", "email"}

\* the optional fields of a form that no longer hold their default
Edited(form) == {f \in OptionalFields : form[f] # ClientFormDefaults[f]}

CM_Input(field, text) ==
    /\ NoAlert
    /\ currentPage = "clients"
    /\ cm_showModal
    /\ cm_formData' = ClientInput(cm_formData, field, text)
    /\ cm_formData' # cm_formData
    /\ Cardinality(Edited(cm_formData')) <= MaxEdits
    /\ UNCHANGED <<dbVars, shVars, sessVars, requests, responses, appVars,
                   cm_showModal, cm_editingClient, smVars, billingData,
                   alertShown, hist>>

\* the browser's own validation of the form: name and email are required
ClientFormValid(form) == form.name # "" /\ form.email # ""

\* (a slip to tell apart: the fee left out of the body, so that the API
\* stores its default)
ClientSubmitReq_NoFee(rid, editing, form) ==
    [Req(rid, IF editing # NoId THEN "updateClient" ELSE "createClient",
         editing)
       EXCEPT !.cbody = JsonStringify([form EXCEPT !.monthly_fee = 0]),
              !.form = form]

\* handleSubmit up to the await: url and method from editingClient, the
\* body from formData
ClientSubmitReq(rid, editing, form) ==
    [Req(rid, IF editing # NoId THEN "updateClient" ELSE "createClient",
         editing)
       EXCEPT !.cbody = JsonStringify(form), !.form = form]

CM_handleSubmit ==
    /\ NoAlert
    /\ currentPage = "clients"
    /\ cm_showModal
    /\ ClientFormValid(cm_formData)
    /\ CanSend(1)
    /\ requests' = requests \cup
          {ClientSubmitReq(FreeRid, cm_editingClient, cm_formData)}
    /\ UNCHANGED <<dbVars, shVars, sessVars,
                   responses, appVars, cmVars, smVars, billingData,
                   alertShown, hist>>

\* handleSubmit after the await
CM_handleSubmitDone(resp) ==
    /\ NoAlert
    /\ resp.op \in {"createClient", "updateClient"}
    /\ IF resp.ok
         THEN /\ IF resp.live
                   THEN /\ cm_showModal' = FALSE
                        /\ cm_editingClient' = NoId
                        /\ cm_formData' = ClientFormDefaults
                   ELSE UNCHANGED cmVars
              /\ requests' = requests \cup {FetchClientsReq(resp.rid)}
              /\ UNCHANGED alertShown
         ELSE /\ alertShown' =
                   IF resp.neterr
                     THEN "Network error occurred while saving client"
                     ELSE ErrorAlert(resp.detail, "Failed to create client")
              /\ UNCHANGED <<requests, cmVars>>
    /\ responses' = responses \ {resp}
    /\ UNCHANGED <<dbVars, shVars, sessVars,
                   appVars, smVars, billingData, hist>>

\* (a slip to tell apart: the modal closed with the edit target left set)
CM_onClose_KeepTarget ==
    /\ NoAlert
    /\ currentPage = "clients"
    /\ cm_showModal
    /\ cm_showModal' = FALSE
    /\ cm_formData' = ClientFormDefaults
    /\ UNCHANGED <<dbVars, shVars, sessVars, requests, responses, appVars,
                   cm_editingClient, smVars, billingData, alertShown, hist>>

\* ClientModal onClose ('Cancelar')
CM_onClose ==
    /\ NoAlert
    /\ currentPage = "clients"
    /\ cm_showModal
    /\ cm_showModal' = FALSE
    /\ cm_editingClient' = NoId
    /\ cm_formData' = ClientFormDefaults
    /\ UNCHANGED <<dbVars, shVars, sessVars,
                   requests, responses, appVars, smVars,
                   billingData, alertShown, hist>>

\* handleDelete(clientId) up to the await: the request for the row clicked
ClientDeleteReq(rid, clientId) == Req(rid, "deleteClient", clientId)


CM_handleDelete(client) ==
    /\ NoAlert
    /\ currentPage = "clients"
    /\ ~cm_showModal
    /\ client \in clients
    /\ CanSend(1)
    /\ requests' = requests \cup
          {[ClientDeleteReq(FreeRid, client.id) EXCEPT !.clicked = client.id]}
    /\ UNCHANGED <<dbVars, shVars, sessVars,
                   responses, appVars, cmVars, smVars, billingData,
                   alertShown, hist>>

\* handleDelete after the await: refresh on ok, nothing otherwise
CM_handleDeleteDone(resp) ==
    /\ NoAlert
    /\ resp.op = "deleteClient"
    /\ IF resp.ok
         THEN /\ hist' = [hist EXCEPT !.deletedOk = @ \cup {resp.clicked}]
              /\ requests' = requests \cup
                    {[FetchClientsReq(resp.rid) EXCEPT
                        !.after = hist'.deletedOk]}
         ELSE UNCHANGED <<requests, hist>>
    /\ responses' = responses \ {resp}
    /\ UNCHANGED <<dbVars, shVars, sessVars,
                   appVars, cmVars, smVars, billingData, alertShown>>


\* -------------------------------------------------------- StreamManagement
\* 'Agregar Stream': setShowModal(true)
SM_Add ==
    /\ NoAlert
    /\ currentPage = "streams"
    /\ ~sm_showModal
    /\ sm_showModal' = TRUE
    /\ UNCHANGED <<dbVars, shVars, sessVars,
                   requests, responses, appVars, cmVars,
                   sm_editingStream, sm_formData, billingData, alertShown,
                   hist>>

\* the client <select> of StreamModal: '' or one of the listed clients
SM_SelectClient(clientId) ==
    /\ NoAlert
    /\ currentPage = "streams"
    /\ sm_showModal
    /\ clientId = NoId \/ \E c \in clients : c.id = clientId
    /\ sm_formData' = [sm_formData EXCEPT !.client_id = clientId]
    /\ sm_formData' # sm_formData
    /\ UNCHANGED <<dbVars, shVars, sessVars,
                   requests, responses, appVars, cmVars,
                   sm_showModal, sm_editingStream, billingData, alertShown,
                   hist>>

\* the name <input> of StreamModal
SM_InputName(text) ==
    /\ NoAlert
    /\ currentPage = "streams"
    /\ sm_showModal
    /\ sm_formData' = [sm_formData EXCEPT !.name = text]
    /\ sm_formData' # sm_formData
    /\ UNCHANGED <<dbVars, shVars, sessVars,
                   requests, responses, appVars, cmVars,
                   sm_showModal, sm_editingStream, billingData, alertShown,
                   hist>>

\* the browser's own validation: client and name are required
StreamFormValid(form) == form.client_id # NoId /\ form.name # ""

\* (a slip to tell apart: the stream posted under the first listed client)
StreamSubmitReq_FirstListed(rid, editing, form) ==
    [Req(rid, "createStream",
         CHOOSE c \in {x.id : x \in clients} :
             \A d \in {x.id : x \in clients} : c <= d)
       EXCEPT !.sbody = form]

\* (a slip to tell apart: the PUT chosen whatever editingStream holds)
StreamSubmitReq_Put(rid, editing, form) ==
    [Req(rid, "updateStream", form.client_id) EXCEPT !.sbody = form]

\* handleSubmit up to the await: url and method from editingStream
StreamSubmitReq(rid, editing, form) ==
    [Req(rid, IF editing # NoId THEN "updateStream" ELSE "createStream",
         IF editing # NoId THEN editing ELSE form.client_id)
       EXCEPT !.sbody = form]

SM_handleSubmit ==
    /\ NoAlert
    /\ currentPage = "streams"
    /\ sm_showModal
    /\ StreamFormValid(sm_formData)
    /\ CanSend(1)
    /\ requests' = requests \cup
          {StreamSubmitReq(FreeRid, sm_editingStream, sm_formData)}
    /\ UNCHANGED <<dbVars, shVars, sessVars,
                   responses, appVars, cmVars, smVars, billingData,
                   alertShown, hist>>

\* handleSubmit after the await
SM_handleSubmitDone(resp) ==
    /\ NoAlert
    /\ resp.op \in {"createStream", "updateStream"}
    /\ IF resp.ok
         THEN /\ IF resp.live
                   THEN /\ sm_showModal' = FALSE
                        /\ sm_editingStream' = NoId
                        /\ sm_formData' = StreamFormDefaults
                   ELSE UNCHANGED smVars
              /\ requests' = requests \cup {FetchStreamsReq(resp.rid)}
              /\ UNCHANGED alertShown
         ELSE /\ alertShown' =
                   IF resp.neterr
                     THEN "Network error occurred while saving stream"
                     ELSE ErrorAlert(resp.detail, "Failed to create stream")
              /\ UNCHANGED <<requests, smVars>>
    /\ responses' = responses \ {resp}
    /\ UNCHANGED <<dbVars, shVars, sessVars,
                   appVars, cmVars, billingData, hist>>

\* StreamModal onClose ('Cancelar')
SM_onClose ==
    /\ NoAlert
    /\ currentPage = "streams"
    /\ sm_showModal
    /\ sm_showModal' = FALSE
    /\ sm_editingStream' = NoId
    /\ sm_formData' = StreamFormDefaults
    /\ UNCHANGED <<dbVars, shVars, sessVars,
                   requests, responses, appVars, cmVars,
                   billingData, alertShown, hist>>

\* the control button a row shows: 'Iniciar' for a stream listed as
\* stopped, 'Detener' for any other status
ButtonLabel(status) == IF status = "stopped" THEN "Iniciar" ELSE "Detener"

\* (a slip to tell apart: the two onClick actions exchanged)
ButtonAction_Swapped(status) == IF status = "stopped" THEN "stop" ELSE "start"

\* the action that button's onClick passes to handleStreamControl
ButtonAction(status) == IF status = "stopped" THEN "start" ELSE "stop"

\* handleStreamControl(streamId, action) up to the await
ControlReq(rid, streamId, action) == Req(rid, action, streamId)

SM_handleStreamControl(stream) ==
    /\ NoAlert
    /\ currentPage = "streams"
    /\ ~sm_showModal
    /\ stream \in streams
    /\ CanSend(1)
    /\ requests' = requests \cup
          {[ControlReq(FreeRid, stream.id, ButtonAction(stream.status))
              EXCEPT !.label = ButtonLabel(stream.status),
                     !.clicked = stream.id]}
    /\ hist' = [hist EXCEPT !.controlFailed = FALSE]
    /\ UNCHANGED <<dbVars, shVars, sessVars,
                   responses, appVars, cmVars, smVars, billingData,
                   alertShown>>

\* (a slip to tell apart: the request sent once more when it failed)
ControlFollowUp_Retry(resp) ==
    IF resp.ok THEN {FetchStreamsReq(resp.rid)}
               ELSE {ControlReq(resp.rid, resp.target, resp.op)}

\* handleStreamControl after the await: what it sends; the refresh on ok,
\* nothing otherwise
ControlFollowUp(resp) ==
    IF resp.ok THEN {FetchStreamsReq(resp.rid)} ELSE {}

SM_handleStreamControlDone(resp) ==
    /\ NoAlert
    /\ resp.op \in {"start", "stop"}
    /\ requests' = requests \cup ControlFollowUp(resp)
    /\ responses' = responses \ {resp}
    /\ hist' = [hist EXCEPT !.controlFailed = ~resp.ok]
    /\ UNCHANGED <<dbVars, shVars, sessVars,
                   appVars, cmVars, smVars, billingData, alertShown>>

\* (a slip to tell apart: 'Eliminar' wired to the stop endpoint)
StreamDeleteReq_Stop(rid, streamId) == Req(rid, "stop", streamId)

\* handleDelete(streamId) up to the await: the request
StreamDeleteReq(rid, streamId) == Req(rid, "deleteStream", streamId)

SM_handleDelete(stream) ==
    /\ NoAlert
    /\ currentPage = "streams"
    /\ ~sm_showModal
    /\ stream \in streams
    /\ CanSend(1)
    /\ requests' = requests \cup {StreamDeleteReq(FreeRid, stream.id)}
    /\ UNCHANGED <<dbVars, shVars, sessVars,
                   responses, appVars, cmVars, smVars, billingData,
                   alertShown, hist>>

\* handleDelete after the await
SM_handleDeleteDone(resp) ==
    /\ NoAlert
    /\ resp.op = "deleteStream"
    /\ IF resp.ok
         THEN /\ requests' = requests \cup {FetchStreamsReq(resp.rid)}
         ELSE UNCHANGED requests
    /\ responses' = responses \ {resp}
    /\ UNCHANGED <<dbVars, shVars, sessVars,
                   appVars, cmVars, smVars, billingData, alertShown,
                   hist>>

\* ------------------------------------------------------------- Billing
\* fetchBillingData(): the continuation after the await
FetchBillingDone(resp) ==
    /\ NoAlert
    /\ resp.op = "listBilling"
    /\ responses' = responses \ {resp}
    /\ billingData' = IF resp.ok /\ resp.live THEN resp.billingData
                                              ELSE billingData
    /\ UNCHANGED <<dbVars, shVars, sessVars,
                   requests, appVars, cmVars, smVars, alertShown,
                   hist>>

\* (a slip to tell apart: the id of the first client sent, whatever the
\* row)
GenerateBillReq_FirstRow(rid, clientId) ==
    [Req(rid, "generateBill", 1) EXCEPT
        !.label = "Generar Factura", !.clicked = clientId]

\* generateBill(client.id) up to the await
GenerateBillReq(rid, clientId) ==
    [Req(rid, "generateBill", clientId) EXCEPT !.label = "Generar Factura"]

\* 'Generar Factura' in the row of a client
generateBill(client) ==
    /\ NoAlert
    /\ currentPage = "billing"
    /\ CanSend(1)
    /\ requests' = requests \cup {GenerateBillReq(FreeRid, client.id)}
    /\ UNCHANGED <<dbVars, shVars, sessVars,
                   responses, appVars, cmVars, smVars, billingData,
                   alertShown, hist>>

\* generateBill after the await: on success the alert, which holds the
\* continuation until dismissed
generateBillDone(resp) ==
    /\ NoAlert
    /\ resp.op = "generateBill"
    /\ IF resp.ok
         THEN /\ alertShown' = BillGenerated
              /\ responses' = (responses \ {resp}) \cup
                    {[resp EXCEPT !.detail = BillGenerated]}
         ELSE /\ responses' = responses \ {resp}
              /\ UNCHANGED alertShown
    /\ UNCHANGED <<dbVars, shVars, sessVars,
                   requests, appVars, cmVars, smVars, billingData,
                   hist>>

\* generateBill after the alert is dismissed: fetchBillingData()
generateBillResume(resp) ==
    /\ alertShown = BillGenerated
    /\ resp.op = "generateBill" /\ resp.detail = BillGenerated
    /\ alertShown' = ""
    /\ responses' = responses \ {resp}
    /\ requests' = requests \cup {FetchBillingReq(resp.rid, resp.live)}
    /\ UNCHANGED <<dbVars, shVars, sessVars,
                   appVars, cmVars, smVars, billingData, hist>>

\* ------------------------------------------------------- initial states
\* ------------------------------------------------------ initial states
\* a client document already in the store when the web client starts
SeedForm(email, max) ==
    [ClientFormDefaults EXCEPT !.name = "Seed", !.email = email,
                               !.max_streams = max]

SeedClient(email, max) ==
    Remembered(NewClientDoc(SeedForm(email, max)), SeedForm(email, max))

SeedStream(status) ==
    [client_id |-> 1, status |-> status, selected |-> 1]

StreamStatus == {"stopped", "running", "error"}

\* App's and the components' useState values, the dashboard shown, no
\* request in flight; the store holds the documents given
InitConsole(storeClients, storeStreams) ==
    /\ dbClients = storeClients
    /\ dbStreams = storeStreams
    /\ nextClientId = Len(storeClients) + 1
    /\ nextStreamId = Len(storeStreams) + 1
    /\ dbBills = <<>>
    /\ requests = {}
    /\ responses = {}
    /\ currentPage = "dashboard"
    /\ clients = {}
    /\ streams = {}
    /\ cm_showModal = FALSE
    /\ cm_editingClient = NoId
    /\ cm_formData = ClientFormDefaults
    /\ sm_showModal = FALSE
    /\ sm_editingStream = NoId
    /\ sm_formData = StreamFormDefaults
    /\ billingData = {}
    /\ alertShown = ""
    /\ hist = HistInit

\* the web client of an operator who is logged in
InitWith(storeClients, storeStreams) ==
    /\ InitConsole(storeClients, storeStreams)
    /\ LoggedIn
    /\ NotInstalling

\* ---------------------------------------------- streams: create and delete
\* The store starts with no stream and with one client, allowed one or
\* two streams.
InitStreams ==
    \E m \in {1, 2} : InitWith(<<SeedClient("a@acme.com", m)>>, <<>>)

ApiStreams ==
    \E r \in requests :
        \/ ApiListClients(r)
        \/ ApiListStreams(r)
        \/ ApiDeleteClientCheck(r)
        \/ ApiDeleteClientWrite(r)
        \/ ApiCreateStreamCheck(r)
        \/ ApiCreateStreamInsert(r)
        \/ ApiDeleteStream(r)
        \/ RequestFails(r)

ContinueStreams ==
    \E resp \in responses :
        \/ FetchClientsDone(resp)
        \/ FetchStreamsDone(resp)
        \/ CM_handleDeleteDone(resp)
        \/ SM_handleSubmitDone(resp)
        \/ SM_handleDeleteDone(resp)

OperatorStreams ==
    \/ DismissAlert
    \/ \E page \in {"clients", "streams"} : SetCurrentPage(page)
    \/ \E client \in clients : CM_handleDelete(client)
    \/ SM_Add
    \/ \E c \in ClientIds \cup {NoId} : SM_SelectClient(c)
    \/ \E text \in Names : SM_InputName(text)
    \/ SM_handleSubmit
    \/ SM_onClose
    \/ \E stream \in streams : SM_handleDelete(stream)

NextStreams == ApiStreams \/ ContinueStreams \/ OperatorStreams

SpecStreams == InitStreams /\ [][NextStreams]_vars


\* ------------------------------------------ streams: the listed counts
\* The store starts with two clients and no stream; clients are not
\* deleted.
InitCount ==
    InitWith(<<SeedClient("a@acme.com", 1), SeedClient("b@acme.com", 2)>>,
             <<>>)

ApiCount ==
    \E r \in requests :
        \/ ApiListClients(r)
        \/ ApiListStreams(r)
        \/ ApiCreateStreamCheck(r)
        \/ ApiCreateStreamInsert(r)
        \/ ApiDeleteStream(r)
        \/ RequestFails(r)

ContinueCount ==
    \E resp \in responses :
        \/ FetchClientsDone(resp)
        \/ FetchStreamsDone(resp)
        \/ SM_handleSubmitDone(resp)
        \/ SM_handleDeleteDone(resp)

OperatorCount ==
    \/ DismissAlert
    \/ \E page \in {"clients", "streams"} : SetCurrentPage(page)
    \/ SM_Add
    \/ \E c \in ClientIds \cup {NoId} : SM_SelectClient(c)
    \/ \E text \in Names : SM_InputName(text)
    \/ SM_handleSubmit
    \/ SM_onClose
    \/ \E stream \in streams : SM_handleDelete(stream)

NextCount == ApiCount \/ ContinueCount \/ OperatorCount

SpecCount == InitCount /\ [][NextCount]_vars

\* ------------------------------------------------- streams: start and stop
\* The store starts with one client, allowed one stream, and its stream in
\* any of the three statuses.
InitControl ==
    \E st \in StreamStatus :
        InitWith(<<SeedClient("a@acme.com", 1)>>, <<SeedStream(st)>>)

ApiControl ==
    \E r \in requests :
        \/ ApiListClients(r)
        \/ ApiListStreams(r)
        \/ ApiDeleteClientCheck(r)
        \/ ApiDeleteClientWrite(r)
        \/ ApiCreateStreamCheck(r)
        \/ ApiCreateStreamInsert(r)
        \/ ApiDeleteStream(r)
        \/ \E daemonOk \in BOOLEAN : ApiStreamControl(r, daemonOk)
        \/ RequestFails(r)

ContinueControl ==
    \E resp \in responses :
        \/ FetchClientsDone(resp)
        \/ FetchStreamsDone(resp)
        \/ CM_handleDeleteDone(resp)
        \/ SM_handleSubmitDone(resp)
        \/ SM_handleStreamControlDone(resp)
        \/ SM_handleDeleteDone(resp)

OperatorControl ==
    \/ DismissAlert
    \/ \E page \in {"clients", "streams"} : SetCurrentPage(page)
    \/ \E client \in clients : CM_handleDelete(client)
    \/ SM_Add
    \/ \E c \in ClientIds \cup {NoId} : SM_SelectClient(c)
    \/ \E text \in Names : SM_InputName(text)
    \/ SM_handleSubmit
    \/ SM_onClose
    \/ \E stream \in streams : SM_handleStreamControl(stream)
    \/ \E stream \in streams : SM_handleDelete(stream)

NextControl == ApiControl \/ ContinueControl \/ OperatorControl

SpecControl == InitControl /\ [][NextControl]_vars

\* ---------------------------------------------------- client records
\* The store starts with one client.  The operator stays on the clients
\* page and adds clients, changing at most MaxEdits optional fields of a
\* form.  Every request reaches the API.
InitRecords == InitWith(<<SeedClient("b@acme.com", 1)>>, <<>>)

ApiRecords ==
    \E r \in requests :
        \/ ApiListClients(r)
        \/ ApiCreateClientCheck(r)
        \/ ApiCreateClientInsert(r)

ContinueRecords ==
    \E resp \in responses :
        \/ FetchClientsDone(resp)
        \/ CM_handleSubmitDone(resp)

OperatorRecords ==
    \/ DismissAlert
    \/ SetCurrentPage("clients")
    \/ CM_Add
    \/ \E field \in ClientFields :
         \E text \in ClientTexts(field) : CM_Input(field, text)
    \/ CM_handleSubmit
    \/ CM_onClose

NextRecords == ApiRecords \/ ContinueRecords \/ OperatorRecords

SpecRecords == InitRecords /\ [][NextRecords]_vars

\* ----------------------------------------------------- client emails
\* The store starts empty or with one client.  The operator stays on the
\* clients page, adds and edits clients, and types names and emails only.
InitEmails ==
    \/ InitWith(<<>>, <<>>)
    \/ InitWith(<<SeedClient("b@acme.com", 1)>>, <<>>)

ApiEmails ==
    \E r \in requests :
        \/ ApiListClients(r)
        \/ ApiCreateClientCheck(r)
        \/ ApiCreateClientInsert(r)
        \/ ApiUpdateClientCheck(r)
        \/ ApiUpdateClientWrite(r)
        \/ RequestFails(r)

ContinueEmails ==
    \E resp \in responses :
        \/ FetchClientsDone(resp)
        \/ CM_handleSubmitDone(resp)

OperatorEmails ==
    \/ DismissAlert
    \/ SetCurrentPage("clients")
    \/ CM_Add
    \/ \E client \in clients : CM_handleEdit(client)
    \/ \E field \in {"name", "email"} :
         \E text \in ClientTexts(field) : CM_Input(field, text)
    \/ CM_handleSubmit
    \/ CM_onClose

NextEmails == ApiEmails \/ ContinueEmails \/ OperatorEmails

SpecEmails == InitEmails /\ [][NextEmails]_vars

\* --------------------------------------------------- client deletion
\* The store starts with two clients, the second with or without a stream.
\* The operator stays on the clients page and deletes clients.
InitDeletion ==
    \/ InitWith(<<SeedClient("a@acme.com", 1), SeedClient("b@acme.com", 1)>>,
                <<>>)
    \/ \E st \in StreamStatus :
         InitWith(<<SeedClient("a@acme.com", 1), SeedClient("b@acme.com", 1)>>,
                  <<[SeedStream(st) EXCEPT !.client_id = 2, !.selected = 2]>>)

ApiDeletion ==
    \E r \in requests :
        \/ ApiListClients(r)
        \/ ApiDeleteClientCheck(r)
        \/ ApiDeleteClientWrite(r)
        \/ RequestFails(r)

ContinueDeletion ==
    \E resp \in responses :
        \/ FetchClientsDone(resp)
        \/ CM_handleDeleteDone(resp)

OperatorDeletion ==
    \/ SetCurrentPage("clients")
    \/ \E client \in clients : CM_handleDelete(client)

NextDeletion == ApiDeletion \/ ContinueDeletion \/ OperatorDeletion

SpecDeletion == InitDeletion /\ [][NextDeletion]_vars

\* ------------------------------------------------------------ billing
\* The store starts with two clients, one with a monthly fee of 29.99, and
\* no billing record.  The operator moves between the billing and the
\* clients page and generates bills; pending records get settled.
SeedClientFee(email, fee) ==
    Remembered(
      NewClientDoc([SeedForm(email, 1) EXCEPT !.monthly_fee = fee]),
      [SeedForm(email, 1) EXCEPT !.monthly_fee = fee])

InitBilling ==
    InitWith(<<SeedClientFee("a@acme.com", 0),
               SeedClientFee("b@acme.com", 2999)>>, <<>>)

ApiBilling ==
    \/ \E r \in requests :
          \/ ApiListClients(r)
          \/ ApiListBilling(r)
          \/ ApiGenerateBillRead(r)
          \/ ApiGenerateBillInsert(r)
          \/ RequestFails(r)
    \/ \E i \in 1..MaxBills : \E status \in {"paid", "overdue"} :
          ApiBillSettle(i, status)

ContinueBilling ==
    \E resp \in responses :
        \/ FetchClientsDone(resp)
        \/ FetchBillingDone(resp)
        \/ generateBillDone(resp)
        \/ generateBillResume(resp)

OperatorBilling ==
    \/ \E page \in {"billing", "clients"} : SetCurrentPage(page)
    \/ \E client \in billingData : generateBill(client)

NextBilling == ApiBilling \/ ContinueBilling \/ OperatorBilling

SpecBilling == InitBilling /\ [][NextBilling]_vars

\* ------------------------------------------------------------ properties
\* the response the API gives in this step to request r, if it gives one
Answered(r, resp) ==
    /\ r \in requests /\ r \notin requests'
    /\ resp \in responses' /\ resp \notin responses
    /\ resp.rid = r.rid /\ ~resp.neterr

\* the operator's request is not one the stream's status calls for
InvalidControl(label, status) ==
    \/ label = "Iniciar" /\ status = "running"
    \/ label = "Detener" /\ status = "stopped"

\* C1: an accepted 'Iniciar' on a stopped stream leaves it running, an
\* accepted 'Detener' on a running stream leaves it stopped, and a request
\* the status does not call for (a second 'Iniciar' sent before the list
\* was refreshed) is always a no-op on the status and never refused as
\* invalid.
C1_StartStopTransitions ==
    [][\A r \in requests : \A resp \in responses' :
          (/\ Answered(r, resp)
           /\ r.label \in {"Iniciar", "Detener"}
           /\ r.clicked \in DOMAIN dbStreams)
          => LET before == dbStreams[r.clicked].status
                 after == dbStreams'[r.clicked].status
             IN /\ (r.label = "Iniciar" /\ before = "stopped" /\ resp.ok)
                     => after = "running"
                /\ (r.label = "Detener" /\ before = "running" /\ resp.ok)
                     => after = "stopped"
                /\ InvalidControl(r.label, before)
                     => /\ after = before
                        /\ resp.detail \in {"", "Internal Server Error"}
      ]_vars

\* C1 witness: a start has been accepted, the stream runs, and a second
\* start for it, sent before the list was refreshed, is under way.
C1_Witness ==
    \E resp \in responses : \E r \in requests : \E x \in streams :
        /\ resp.op = "start" /\ resp.ok
        /\ r.op = "start" /\ r.label = "Iniciar" /\ r.target = resp.target
        /\ x.id = r.target /\ x.status = "stopped"
        /\ r.target \in DOMAIN dbStreams
        /\ dbStreams[r.target].status = "running"

\* C2: a client's stream count never exceeds its max_streams (stream
\* creation is accepted only below the limit), whatever the order in which
\* creation requests are handled.
C2_StreamCountWithinMax ==
    \A c \in DOMAIN dbClients :
        Cardinality(StreamsOf(dbStreams, c)) <= dbClients[c].max_streams

\* C3: every stream's client reference names a client that exists.
C3_StreamClientExists ==
    \A s \in DOMAIN dbStreams : dbStreams[s].client_id \in DOMAIN dbClients

\* C7: a stream created under client C (the client selected in the form)
\* belongs to C, is listed by GET /api/streams, and C's listed stream_count
\* is the number of existing streams created under C.
C7_CreatedStreamCounted ==
    \A s \in DOMAIN dbStreams :
        LET c == dbStreams[s].selected IN
          /\ dbStreams[s].client_id = c
          /\ \E x \in {StreamOut(t) : t \in DOMAIN dbStreams} :
                x.id = s /\ x.client_id = c
          /\ c \in DOMAIN dbClients =>
                ClientOut(c).stream_count =
                  Cardinality({t \in DOMAIN dbStreams :
                                  dbStreams[t].selected = c})

\* C7 witness: the web client lists a client with stream_count 1 and the
\* one stream created under it.
C7_Witness ==
    \E item \in clients : \E x \in streams :
        /\ item.stream_count = 1
        /\ x.client_id = item.id
        /\ x.id \in DOMAIN dbStreams
        /\ C7_CreatedStreamCounted

\* C4: a stream's status changes only in the step that accepts an explicit
\* 'Iniciar' or 'Detener' of the operator for that stream; every other
\* step (list refreshes, page changes, creations, deletions, refused and
\* failed requests) leaves every status as it is, 'error' included.
C4_StatusOnlyByControl ==
    [][\A s \in DOMAIN dbStreams \cap DOMAIN dbStreams' :
          dbStreams'[s].status # dbStreams[s].status
          => \E r \in requests : \E resp \in responses' :
                /\ Answered(r, resp) /\ resp.ok
                /\ r.clicked = s
                /\ \/ r.label = "Iniciar" /\ dbStreams'[s].status = "running"
                   \/ r.label = "Detener" /\ dbStreams'[s].status = "stopped"
      ]_vars

\* C4 witness: a stream the web client still lists as 'error' has been
\* stopped by the operator.
C4_Witness ==
    \E x \in streams :
        /\ x.id \in DOMAIN dbStreams
        /\ x.status = "error"
        /\ dbStreams[x.id].status = "stopped"

\* C5: once the web client has seen the delete of a client succeed, no
\* answer to a list request it issued afterwards contains that client, and
\* neither does the list it stores from such an answer.
C5_DeletedClientNotListed ==
    /\ \A resp \in responses :
          (resp.op = "listClients" /\ resp.ok)
          => \A item \in resp.clientsData : item.id \notin resp.after
    /\ \A item \in clients : item.id \notin hist.clientsAfter

\* C5 witness: the list shown was requested after a delete succeeded and
\* still shows the other client.
C5_Witness ==
    /\ hist.clientsAfter # {}
    /\ clients # {}
    /\ \A c \in hist.clientsAfter : c \notin DOMAIN dbClients

\* C6: a client that was created and not updated since is listed with
\* exactly the submitted value in each of the nine fields of the form, by
\* the API and in the list the web client holds.
C6_CreateThenFetch ==
    /\ \A c \in DOMAIN dbClients :
          ~dbClients[c].updated
          => \A f \in ClientFields :
                ClientOut(c)[f] = dbClients[c].submitted[f]
    /\ \A item \in clients :
          (item.id \in DOMAIN dbClients /\ ~dbClients[item.id].updated)
          => \A f \in ClientFields :
                item[f] = dbClients[item.id].submitted[f]

\* C6 witness: the web client lists a client created through the form with
\* a monthly fee of 29.99.
C6_Witness ==
    \E item \in clients :
        /\ item.name \in Names
        /\ item.email \in Emails
        /\ item.monthly_fee = 2999
        /\ item.id \in DOMAIN dbClients

\* C10: no two existing clients have the same contact email.
C10_EmailUnique ==
    \A c, d \in DOMAIN dbClients :
        c # d => dbClients[c].email # dbClients[d].email

C11_ControlFailureSurfaced ==
    [][\A resp \in responses :
          (/\ resp.op \in {"start", "stop"}
           /\ ~resp.ok
           /\ resp \notin responses')
          => alertShown' # ""
      ]_vars

\* ------------------------------------------------------------ the session
\* The operator is logged in, with one client and its stream in the store,
\* and moves between the dashboard, the clients and the streams pages,
\* starts and stops the stream, logs out and logs in again.
InitSession ==
    \E st \in {"stopped", "running"} :
        InitWith(<<SeedClient("a@acme.com", 1)>>, <<SeedStream(st)>>)

ApiSession ==
    \E r \in requests :
        \/ ApiUnauthorized(r)
        \/ ApiLogin(r)
        \/ ApiStats(r)
        \/ ApiActivity(r)
        \/ ApiListClients(r)
        \/ ApiListStreams(r)
        \/ \E daemonOk \in BOOLEAN : ApiStreamControl(r, daemonOk)
        \/ RequestFails(r)

ContinueSession ==
    \/ \E resp \in responses :
           \/ LS_handleSubmitDone(resp)
           \/ FetchClientsDone(resp)
           \/ FetchStreamsDone(resp)
           \/ SM_handleStreamControlDone(resp)
    \/ \E stats, activity \in responses : FetchDashboardDone(stats, activity)

OperatorSession ==
    \/ \E page \in {"dashboard", "clients", "streams"} : SetCurrentPage(page)
    \/ \E stream \in streams : SM_handleStreamControl(stream)
    \/ logout
    \/ \E password \in Credentials : LS_handleSubmit(password)
    \/ HeaderTick

NextSession == ApiSession \/ ContinueSession \/ OperatorSession

SpecSession == InitSession /\ [][NextSession]_vars

\* a request handed to fetch() in this step
Sent(r) ==
    /\ r \in requests'
    /\ r.phase = "sent"
    /\ ~\E m \in requests : m.rid = r.rid

\* C12: every request but login is sent with the token stored at that time,
\* and no request is sent with the token absent.
C12_BearerTokenSent ==
    [][\A r \in requests' :
          (Sent(r) /\ r.op # "login")
          => (r.token # NoToken /\ r.token = token')
      ]_vars

\* ---------------------------------------------------------------- startup
\* the page is loaded anew: every state of App and its components is the
\* initial one, what was in flight has nobody to answer to, and
\* localStorage is what it was
Reload ==
    /\ ~loading
    /\ requests' = {}
    /\ responses' = {}
    /\ currentPage' = "dashboard"
    /\ cm_showModal' = FALSE
    /\ cm_editingClient' = NoId
    /\ cm_formData' = ClientFormDefaults
    /\ sm_showModal' = FALSE
    /\ sm_editingStream' = NoId
    /\ sm_formData' = StreamFormDefaults
    /\ clients' = {}
    /\ streams' = {}
    /\ billingData' = {}
    /\ alertShown' = ""
    /\ user' = NoUser
    /\ loading' = TRUE
    /\ ls_loading' = FALSE
    /\ ls_error' = ""
    /\ dashboardStats' = NoStats
    /\ recentActivity' = NoActivity
    /\ currentTime' = 0
    /\ helpTooltip' = NoTooltip
    /\ pointer' = NoIcon
    /\ hist' = [hist EXCEPT !.restored = FALSE]
    /\ UNCHANGED <<dbVars, shVars, token>>

\* The page is loaded with no token stored, or with one the API accepts, or
\* with one it rejects.  The operator logs in and out, opens the clients
\* page and reloads.
InitStartup ==
    /\ InitConsole(<<SeedClient("a@acme.com", 1)>>, <<>>)
    /\ token \in Tokens \cup {NoToken}
    /\ Mounting
    /\ NotInstalling

ApiStartup ==
    \E r \in requests :
        \/ ApiUnauthorized(r)
        \/ ApiLogin(r)
        \/ ApiMe(r)
        \/ ApiStats(r)
        \/ ApiActivity(r)
        \/ ApiListClients(r)
        \/ RequestFails(r)

ContinueStartup ==
    \/ \E resp \in responses :
           \/ checkAuthDone(resp)
           \/ LS_handleSubmitDone(resp)
           \/ FetchClientsDone(resp)
    \/ \E stats, activity \in responses : FetchDashboardDone(stats, activity)

OperatorStartup ==
    \/ \E page \in {"dashboard", "clients"} : SetCurrentPage(page)
    \/ logout
    \/ \E password \in Credentials : LS_handleSubmit(password)
    \/ Reload

NextStartup == checkAuth \/ ApiStartup \/ ContinueStartup \/ OperatorStartup

SpecStartup == InitStartup /\ [][NextStartup]_vars

\* C13: startup ends with no request sent and the login screen shown when no
\* token is stored; with the user restored, the token kept and no login
\* when the API accepts the stored token; with the token removed and the
\* login screen shown when the API rejects it or the request fails.  The
\* user is non-null only while a token is stored.
C13_SessionPersists ==
    [][/\ (loading /\ ~loading') =>
             \/ /\ token = NoToken
                /\ requests' = requests
                /\ LoginScreenShown'
             \/ \E resp \in responses \ responses' :
                   /\ resp.op = "me"
                   /\ IF resp.ok
                        THEN /\ user' = resp.user
                             /\ token' = token
                             /\ ~LoginScreenShown'
                             /\ ~\E m \in requests \cup responses :
                                     m.op = "login"
                        ELSE /\ token' = NoToken
                             /\ LoginScreenShown'
       /\ (user' # NoUser => token' # NoToken)
      ]_vars

\* the user has been restored from the stored token after a reload
C13_Witness ==
    /\ hist.restored
    /\ user = AdminUser
    /\ token = "jwt"
    /\ ~loading

\* C14: a logout ends with the token absent, user null and the page
\* 'dashboard'; while user is null the page is 'dashboard' and, once startup
\* is over, the login screen is shown; the page after a successful login is
\* the dashboard; a failed login leaves token and user as they were and
\* shows the invalid-credentials error.
C14_LogoutAndLogin ==
    [][/\ (user # NoUser /\ user' = NoUser) =>
             /\ token' = NoToken
             /\ currentPage' = "dashboard"
       /\ user' = NoUser =>
             /\ currentPage' = "dashboard"
             /\ ~loading' => LoginScreenShown'
       /\ (user = NoUser /\ user' # NoUser) => currentPage' = "dashboard"
       /\ \A resp \in responses \ responses' :
             (resp.op = "login" /\ ~resp.ok) =>
                 /\ token' = token
                 /\ user' = user
                 /\ ls_error' = "Credenciales inválidas"
      ]_vars

\* the operator has logged out and a login has been refused since
C14_Witness ==
    /\ user = NoUser
    /\ token = NoToken
    /\ currentPage = "dashboard"
    /\ ls_error = "Credenciales inválidas"
    /\ ~ls_loading

\* the requests of the page effect sent in this step
PageLoadSent ==
    {r \in requests' :
        /\ Sent(r)
        /\ r.op \in {"stats", "activity", "listClients", "listStreams"}}

\* what the claim says a page asks for when it is shown
PageAsks(page) ==
    CASE page = "dashboard" -> {"stats", "activity"}
      [] page = "clients" -> {"listClients"}
      [] page = "streams" -> {"listStreams", "listClients"}
      [] OTHER -> {}

TakenUp(resp) ==
    /\ resp \in responses
    /\ ~\E m \in responses' : m.rid = resp.rid

\* C16: nothing is retried: the step that takes up a failed response (not
\* ok, or a network error) sends no request, and neither the API's answers
\* nor the clock send one; a request is sent only by an operator's action,
\* a page load or the continuation of an accepted request.
C16_NoAutomaticRetry ==
    [][/\ \A resp \in responses :
             (TakenUp(resp) /\ ~resp.ok) => \A r \in requests' : ~Sent(r)
       /\ (responses \subseteq responses' /\ responses' # responses) =>
             \A r \in requests' : ~Sent(r)
       /\ currentTime' # currentTime => \A r \in requests' : ~Sent(r)
      ]_vars

\* a start or stop has failed, its response has been taken up and the
\* operator has not clicked since: nothing is in flight
C16_Witness ==
    /\ hist.controlFailed
    /\ currentPage = "streams"
    /\ requests = {}
    /\ responses = {}

\* -------------------------------------------------------------- install.sh
\* the script's sections in order; sh_pc is the number of the section about
\* to run, and one past the last when the script has exited
Script ==
    <<"root", "ubuntu", "confirm", "update", "packages", "nodejs", "yarn",
      "useradd", "mkdir", "copy", "venv", "frontend", "mongodb", "env",
      "icecast", "supervisor", "nginx", "ufw", "fail2ban", "ssl", "backup",
      "cron", "start", "status">>

At(section) == sh_pc \in 1..Len(Script) /\ Script[sh_pc] = section

Exited == sh_pc = Len(Script) + 1

\* what a section changes on the machine when its commands succeed
Effect(section) ==
    CASE section \in {"update", "packages", "nodejs", "yarn"} -> {"package"}
      [] section = "useradd" -> {"user"}
      [] section \in {"mkdir", "copy", "venv", "frontend", "env", "backup",
                      "cron"} -> {"file"}
      [] section \in {"mongodb", "start", "ufw"} -> {"service"}
      [] section \in {"icecast", "supervisor", "nginx", "fail2ban", "ssl"} ->
             {"file", "service"}
      [] OTHER -> {}

\* the sections that are one run of commands under set -e
Plain ==
    {"update", "packages", "nodejs", "yarn", "mkdir", "venv", "mongodb",
     "supervisor", "nginx", "ufw", "fail2ban", "backup", "cron", "start"}

\* who runs the script
Euids == {0, 1000}

\* what lsb_release -a prints; nothing when the command is missing
Releases == {"", "Ubuntu 20.04.6 LTS", "Ubuntu 22.04.3 LTS"}

\* grep -q "Ubuntu 22.04"
IsUbuntu2204(release) == release \in {"Ubuntu 22.04.3 LTS"}

\* what the operator may type at a prompt
Responses == {"", "y", "Y", "n", "yes"}

\* the exit status of a command that fails
FailCodes == {1, 100}

\* (a slip to tell apart: any answer that starts with y taken for a yes)
Confirms_Prefix(response) == response \in {"y", "Y", "yes"}

\* [[ "$response" =~ ^[Yy]$ ]]
Confirms(response) == response \in {"y", "Y"}

sh_Goto(section) ==
    sh_pc' = CHOOSE i \in 1..Len(Script) : Script[i] = section

sh_Exit(code) ==
    /\ sh_pc' = Len(Script) + 1
    /\ sh_status' = code

webVars == <<dbVars, requests, responses, frontVars, hist>>

\* if [[ $EUID -eq 0 ]]; then ... exit 1
sh_CheckRoot ==
    /\ At("root")
    /\ IF sh_EUID = 0
         THEN sh_Exit(1)
         ELSE sh_Goto("ubuntu") /\ UNCHANGED sh_status
    /\ UNCHANGED <<webVars, sh_files, sh_EUID, sh_release, sh_response, sh_changes>>

\* if ! lsb_release -a 2>/dev/null | grep -q "Ubuntu 22.04"
sh_CheckUbuntu ==
    /\ At("ubuntu")
    /\ IF IsUbuntu2204(sh_release)
         THEN sh_Goto("update")
         ELSE sh_Goto("confirm")
    /\ UNCHANGED <<webVars, sh_files, sh_EUID, sh_release, sh_response, sh_changes,
                   sh_status>>

\* read -r response and the test of it; read fails at the end of input and
\* set -e ends the script
sh_Confirm ==
    /\ At("confirm")
    /\ \/ \E typed \in Responses :
             /\ sh_response' = typed
             /\ IF Confirms(typed)
                  THEN sh_Goto("update") /\ UNCHANGED sh_status
                  ELSE sh_Exit(1)
       \/ /\ sh_Exit(1)
          /\ UNCHANGED sh_response
    /\ UNCHANGED <<webVars, sh_files, sh_EUID, sh_release, sh_changes>>

\* a section of commands: all succeed, or one fails and set -e ends the
\* script with its status
sh_Run ==
    /\ sh_pc \in 1..Len(Script)
    /\ Script[sh_pc] \in Plain
    /\ \/ /\ sh_changes' = sh_changes \cup Effect(Script[sh_pc])
          /\ sh_pc' = sh_pc + 1
          /\ UNCHANGED sh_status
       \/ \E code \in FailCodes :
             /\ sh_Exit(code)
             /\ UNCHANGED sh_changes
    /\ UNCHANGED <<webVars, sh_files, sh_EUID, sh_release, sh_response>>

\* what openssl rand -base64 may print
Passwords == {"cGFzczE=", "cGFzczI="}

\* REACT_APP_BACKEND_URL=https://$NGINX_DOMAIN/api
ConfiguredUrl == "https://your-domain.com/api"

\* const API_URL = process.env.REACT_APP_BACKEND_URL ||
\* 'http://localhost:8001', as the build fixes it in the bundle
BundleUrl(env) == IF env # "" THEN env ELSE "http://localhost:8001"

\* yarn install; yarn build: the bundle is built with the frontend .env as
\* it is now
sh_BuildFrontend ==
    /\ At("frontend")
    /\ \/ /\ sh_Goto("mongodb")
          /\ sh_changes' = sh_changes \cup Effect("frontend")
          /\ sh_files' =
                [sh_files EXCEPT
                    !.API_URL = BundleUrl(sh_files.REACT_APP_BACKEND_URL)]
          /\ UNCHANGED sh_status
       \/ \E code \in FailCodes :
             /\ sh_Exit(code)
             /\ UNCHANGED <<sh_changes, sh_files>>
    /\ UNCHANGED <<webVars, sh_EUID, sh_release, sh_response>>

\* the backend .env, each password drawn by its own openssl rand, and the
\* frontend .env
sh_ConfigureEnv ==
    /\ At("env")
    /\ \/ /\ sh_Goto("icecast")
          /\ sh_changes' = sh_changes \cup Effect("env")
          /\ \E admin, source \in Passwords :
                sh_files' =
                    [sh_files EXCEPT
                        !.ICECAST_ADMIN_PASSWORD = admin,
                        !.ICECAST_SOURCE_PASSWORD = source,
                        !.REACT_APP_BACKEND_URL = ConfiguredUrl]
          /\ UNCHANGED sh_status
       \/ \E code \in FailCodes :
             /\ sh_Exit(code)
             /\ UNCHANGED <<sh_changes, sh_files>>
    /\ UNCHANGED <<webVars, sh_EUID, sh_release, sh_response>>

\* ICECAST_PASSWORD=$(openssl rand -base64 16) and icecast.xml written
\* with it
sh_ConfigureIcecast ==
    /\ At("icecast")
    /\ \/ /\ sh_Goto("supervisor")
          /\ sh_changes' = sh_changes \cup Effect("icecast")
          /\ \E ICECAST_PASSWORD \in Passwords :
                sh_files' =
                    [sh_files EXCEPT
                        !.admin_password = ICECAST_PASSWORD,
                        !.source_password = ICECAST_PASSWORD]
          /\ UNCHANGED sh_status
       \/ \E code \in FailCodes :
             /\ sh_Exit(code)
             /\ UNCHANGED <<sh_changes, sh_files>>
    /\ UNCHANGED <<webVars, sh_EUID, sh_release, sh_response>>

\* if ! id "$SERVICE_USER"; then sudo useradd ...
sh_CreateUser ==
    /\ At("useradd")
    /\ \/ /\ sh_Goto("mkdir")
          /\ \E exists \in BOOLEAN :
                sh_changes' = IF exists THEN sh_changes
                              ELSE sh_changes \cup Effect("useradd")
          /\ UNCHANGED sh_status
       \/ \E code \in FailCodes :
             /\ sh_Exit(code)
             /\ UNCHANGED sh_changes
    /\ UNCHANGED <<webVars, sh_files, sh_EUID, sh_release, sh_response>>

\* if [ -d "./backend" ] && [ -d "./frontend" ]; then cp ... else exit 1
sh_CopyFiles ==
    /\ At("copy")
    /\ \/ /\ sh_Goto("venv")
          /\ sh_changes' = sh_changes \cup Effect("copy")
          /\ UNCHANGED sh_status
       \/ /\ sh_Exit(1)
          /\ UNCHANGED sh_changes
    /\ UNCHANGED <<webVars, sh_files, sh_EUID, sh_release, sh_response>>

\* read -r ssl_response; certbot when it is y or Y
sh_SetupSSL ==
    /\ At("ssl")
    /\ \/ \E typed \in Responses :
             /\ sh_Goto("backup")
             /\ sh_changes' = IF Confirms(typed)
                                THEN sh_changes \cup Effect("ssl")
                                ELSE sh_changes
             /\ UNCHANGED sh_status
       \/ \E code \in FailCodes :
             /\ sh_Exit(code)
             /\ UNCHANGED sh_changes
    /\ UNCHANGED <<webVars, sh_files, sh_EUID, sh_release, sh_response>>

\* the final status check and the closing messages
sh_Status ==
    /\ At("status")
    /\ sh_Exit(0)
    /\ UNCHANGED <<webVars, sh_files, sh_EUID, sh_release, sh_response, sh_changes>>

\* The script is started by root or by another user, on a machine of one of
\* the releases, with nothing installed yet and no console running.
InitInstall ==
    /\ InitConsole(<<>>, <<>>)
    /\ token = NoToken
    /\ Mounting
    /\ sh_pc = 1
    /\ sh_EUID \in Euids
    /\ sh_release \in Releases
    /\ sh_response = ""
    /\ sh_changes = {}
    /\ sh_status = 0
    /\ sh_files = NoFiles

NextInstall ==
    \/ sh_CheckRoot
    \/ sh_CheckUbuntu
    \/ sh_Confirm
    \/ sh_Run
    \/ sh_BuildFrontend
    \/ sh_ConfigureEnv
    \/ sh_ConfigureIcecast
    \/ sh_CreateUser
    \/ sh_CopyFiles
    \/ sh_SetupSSL
    \/ sh_Status

SpecInstall == InitInstall /\ [][NextInstall]_vars

\* C17: run by root the script makes no change and, when it has exited, its
\* status is 1; on another release than Ubuntu 22.04 it goes past the
\* question only when the answer was y or Y, and after any other answer it
\* has exited with status 1 and no change made.
C17_InstallerGuards ==
    /\ sh_EUID = 0 =>
          /\ sh_changes = {}
          /\ At("root") \/ (Exited /\ sh_status = 1)
    /\ (sh_EUID # 0 /\ ~IsUbuntu2204(sh_release)) =>
          \/ At("root") \/ At("ubuntu") \/ At("confirm")
          \/ sh_response \in {"y", "Y"}
          \/ Exited /\ sh_status = 1 /\ sh_changes = {}

\* on Ubuntu 20.04 the operator has answered 'yes', which is not y or Y: the
\* script has exited with status 1 and nothing changed
C17_Witness ==
    /\ sh_EUID # 0
    /\ sh_release = "Ubuntu 20.04.6 LTS"
    /\ sh_response = "yes"
    /\ Exited
    /\ sh_status = 1
    /\ sh_changes = {}

\* C18: a response for a list that arrives after the response to a request
\* sent later has been stored does not replace the list shown.
C18_LateListResponseIgnored ==
    [][\A resp \in responses :
          (TakenUp(resp) /\ resp.late) =>
              /\ resp.op = "listStreams" => streams' = streams
              /\ resp.op = "listClients" => clients' = clients
      ]_vars

\* C19: for any one stream at most one start or stop request is under way,
\* sent and not yet answered.
C19_OneControlInFlight ==
    \A s \in StreamIds :
        Cardinality({r \in requests :
                        r.op \in {"start", "stop"} /\ r.target = s}) <= 1

\* C20: when the continuation of a client create or update takes up a
\* rejection, the operator is shown the API's message, the modal, the form
\* and the edit target stay as they are and no request is sent; when it
\* takes up an acceptance, the modal is closed, the edit target cleared and
\* the form reset, and exactly one request, for the client list, is sent.
C20_ClientSubmitOutcome ==
    [][\A resp \in responses :
          (TakenUp(resp) /\ resp.op \in {"createClient", "updateClient"}) =>
              /\ (~resp.ok /\ ~resp.neterr) =>
                    /\ alertShown' = "Error: " \o resp.detail
                    /\ resp.detail # ""
                    /\ UNCHANGED cmVars
                    /\ \A r \in requests' : ~Sent(r)
              /\ resp.ok =>
                    /\ resp.live =>
                          /\ cm_showModal' = FALSE
                          /\ cm_editingClient' = NoId
                          /\ cm_formData' = ClientFormDefaults
                    /\ Cardinality({r \in requests' : Sent(r)}) = 1
                    /\ \A r \in requests' : Sent(r) => r.op = "listClients"
                    /\ alertShown' = ""
      ]_vars

\* a create has been refused for its email: the message is shown, with the
\* modal open and the form as it was typed
C20_Witness ==
    /\ alertShown = "Error: Email already registered"
    /\ cm_showModal
    /\ cm_editingClient = NoId
    /\ cm_formData.email # ""
    /\ requests = {}

\* C21: the step that logs the operator in leaves the web client holding no
\* clients, streams, statistics or activity of the session before, and
\* while nobody is logged in no response is stored in them.
C21_NoDataAcrossSessions ==
    [][/\ (user = NoUser /\ user' # NoUser) =>
             /\ clients' = {}
             /\ streams' = {}
             /\ dashboardStats' = NoStats
             /\ recentActivity' = NoActivity
       /\ (user = NoUser /\ user' = NoUser) =>
             UNCHANGED <<clients, streams, dashboardStats, recentActivity>>
      ]_vars

\* C22: once the frontend is built, the API base URL of the bundle is the
\* one the frontend .env configures, not the fallback.
C22_BundleUsesConfiguredUrl ==
    sh_files.API_URL # "" => sh_files.API_URL = ConfiguredUrl

\* C23: once the backend .env and icecast.xml are both written, the admin
\* and source passwords given to the API are the daemon's own.
C23_IcecastPasswordsAgree ==
    (sh_files.ICECAST_ADMIN_PASSWORD # "" /\ sh_files.admin_password # "") =>
        /\ sh_files.ICECAST_ADMIN_PASSWORD = sh_files.admin_password
        /\ sh_files.ICECAST_SOURCE_PASSWORD = sh_files.source_password

\* the client modal is closed with nothing left of its last use
ClientModalReset ==
    ~cm_showModal =>
        (cm_editingClient = NoId /\ cm_formData = ClientFormDefaults)

\* C24: whenever the client modal is closed the edit target is null and the
\* form holds the defaults; a create is sent only with no edit target, and
\* an update only for the edit target, the client whose 'Editar' was
\* clicked.
C24_ClosedClientModalIsReset ==
    [][/\ ClientModalReset
       /\ ClientModalReset'
       /\ \A r \in requests' :
             Sent(r) =>
                 /\ r.op = "createClient" => cm_editingClient = NoId
                 /\ r.op = "updateClient" =>
                       (r.target = cm_editingClient /\ r.target # NoId)
      ]_vars

\* an update has been submitted and the modal cancelled while it is under
\* way: the modal is closed, with no edit target and the default form
C24_Witness ==
    /\ currentPage = "clients"
    /\ ~cm_showModal
    /\ cm_editingClient = NoId
    /\ cm_formData = ClientFormDefaults
    /\ \E r \in requests : r.op = "updateClient" /\ r.live

\* C25: editingStream is null in every reachable state, so every stream
\* form submission is a POST to /api/clients/{client_id}/streams for the
\* client selected in the form, and a PUT to /api/streams/{id} is never
\* sent.
C25_StreamFormOnlyCreates ==
    [][/\ sm_editingStream = NoId
       /\ sm_editingStream' = NoId
       /\ \A r \in requests' :
             Sent(r) =>
                 /\ r.op # "updateStream"
                 /\ r.op = "createStream" =>
                       (r.target = sm_formData.client_id /\ r.target # NoId)
      ]_vars

\* a stream form submitted for a listed client is under way as a create,
\* the modal still open on the submitted form
C25_Witness ==
    /\ currentPage = "streams"
    /\ sm_showModal
    /\ sm_editingStream = NoId
    /\ \E r \in requests :
          /\ r.op = "createStream"
          /\ r.phase = "sent"
          /\ r.sbody = sm_formData
          /\ \E c \in clients : c.id = r.target

\* --------------------------------------------------- App: the help tooltip
\* help icons of the dashboard: one of the stat cards' and 'Estado del
\* Sistema'
Topics == {"client_max_streams", "server_cpu"}

\* the text the help content holds for a topic
TooltipText(topic) == "tip: " \o topic

\* GET /api/help/tooltip/{topic}
ApiHelpTooltip(r) ==
    /\ Authorized(r)
    /\ r.op = "tooltip"
    /\ Reply(r, [Resp(r, TRUE, "") EXCEPT !.tooltip = TooltipText(r.topic)])
    /\ UNCHANGED <<dbVars, frontVars, shVars, hist>>

\* HelpIcon onMouseEnter: showTooltip(topic, event) up to the await
showTooltip(topic) ==
    /\ NoAlert
    /\ user # NoUser
    /\ currentPage = "dashboard"
    /\ pointer = NoIcon
    /\ CanSend(1)
    /\ pointer' = topic
    /\ requests' = requests \cup
          {[Req(FreeRid, "tooltip", NoId) EXCEPT !.topic = topic]}
    /\ UNCHANGED <<dbVars, shVars, responses, appVars, cmVars, smVars,
                   billingData, alertShown, token, user, loading,
                   ls_loading, ls_error, dashboardStats, recentActivity,
                   currentTime, helpTooltip, hist>>

\* what showTooltip stores when the response is there
TooltipAfter(resp) ==
    IF resp.ok
      THEN [visible |-> TRUE, content |-> resp.tooltip]
      ELSE helpTooltip

\* showTooltip after the await
showTooltipDone(resp) ==
    /\ NoAlert
    /\ resp.op = "tooltip"
    /\ helpTooltip' = TooltipAfter(resp)
    /\ responses' = responses \ {resp}
    /\ UNCHANGED <<dbVars, shVars, requests, appVars, cmVars, smVars,
                   billingData, alertShown, token, user, loading,
                   ls_loading, ls_error, dashboardStats, recentActivity,
                   currentTime, pointer, hist>>

\* HelpIcon onMouseLeave: hideTooltip
hideTooltip ==
    /\ NoAlert
    /\ pointer # NoIcon
    /\ pointer' = NoIcon
    /\ helpTooltip' = [helpTooltip EXCEPT !.visible = FALSE]
    /\ UNCHANGED <<dbVars, shVars, requests, responses, appVars, cmVars,
                   smVars, billingData, alertShown, token, user, loading,
                   ls_loading, ls_error, dashboardStats, recentActivity,
                   currentTime, hist>>

\* The operator, logged in and on the dashboard, moves the pointer over the
\* help icons and away; the clock of the header ticks.
InitHelp == InitWith(<<SeedClient("a@acme.com", 1)>>, <<>>)

ApiHelp ==
    \E r \in requests :
        \/ ApiHelpTooltip(r)
        \/ RequestFails(r)

OperatorHelp ==
    \/ \E topic \in Topics : showTooltip(topic)
    \/ hideTooltip
    \/ HeaderTick

NextHelp ==
    \/ ApiHelp
    \/ \E resp \in responses : showTooltipDone(resp)
    \/ OperatorHelp

SpecHelp == InitHelp /\ [][NextHelp]_vars

\* C26: the help tooltip is visible only while the pointer is over a help
\* icon: once the pointer has left and no other icon has been entered the
\* tooltip is not visible, also when the tooltip text arrives after the
\* pointer has left.
C26_TooltipOnlyWhilePointed ==
    helpTooltip.visible => pointer # NoIcon

====
